---------------------------- MODULE Spec2Model ----------------------------
(***************************************************************************)
(* Model of the PGM ("P5") decoder of src/src/main.rs: the parser          *)
(* combinators (map, and_then, parse_do!) and the primitive parsers        *)
(* (match_header_version, get_num, get_bytes) composed into parse_pgm.     *)
(*                                                                         *)
(* A byte is an integer in 0..255, a slice (&[u8]) is a sequence of bytes. *)
(* A ParseResult is a record: tag "Ok" (val, rest), tag "Err" (err, rest)  *)
(* or tag "Panic" (the call aborted: an out-of-range slice index or an     *)
(* arithmetic overflow under overflow checks).                             *)
(***************************************************************************)
EXTENDS Integers, Sequences, FiniteSets, TLC

(***************************************************************************)
(* Bounds of the model.                                                    *)
(***************************************************************************)
\* longest free-form input buffer
MaxLen == 4
\* largest well-formed width / height written in a generated header
MaxDim == 2
\* longest pixel section appended to a generated header
MaxPixels == 2

(***************************************************************************)
(* Machine integers.                                                       *)
(***************************************************************************)
\* i32::MAX, the largest value s.parse::<i32>() accepts
MaxI32 == 2147483647
MinI32 == -MaxI32 - 1
\* number of values of a u8 (max_grey_val as u8)
U8Range == 256

Min(a, b) == IF a <= b THEN a ELSE b

\* a + b in i32 two's complement, computed without leaving the i32 range
WrapAdd(a, b) ==
    IF a >= 0 /\ b >= 0 /\ a > MaxI32 - b THEN (a + MinI32) + (b + MinI32)
    ELSE IF a < 0 /\ b < 0 /\ a < MinI32 - b THEN (a - MinI32) + (b - MinI32)
    ELSE a + b

RECURSIVE WrapMulNat(_, _)
\* a * b in i32 two's complement for b >= 0 (binary double-and-add)
WrapMulNat(a, b) ==
    IF b = 0 THEN 0
    ELSE LET m == WrapMulNat(a, b \div 2)
             d == WrapAdd(m, m)
         IN  IF b % 2 = 1 THEN WrapAdd(d, a) ELSE d

WrapNeg(a) == IF a = MinI32 THEN MinI32 ELSE -a

\* i32::wrapping_mul
WrapMul(a, b) ==
    IF b >= 0 THEN WrapMulNat(a, b)
    ELSE IF b = MinI32 THEN (IF a % 2 = 0 THEN 0 ELSE MinI32)
    ELSE WrapNeg(WrapMulNat(a, -b))

Abs31(a) == IF a = MinI32 THEN MaxI32 ELSE IF a < 0 THEN -a ELSE a

\* does the exact product a * b lie outside the i32 range
MulOverflows(a, b) ==
    IF a = 0 \/ b = 0 THEN FALSE
    ELSE IF a = MinI32 THEN b # 1
    ELSE IF b = MinI32 THEN a # 1
    ELSE IF Abs31(a) > MaxI32 \div Abs31(b) THEN
            \* |a| * |b| >= 2^31: only -2^31 itself is still representable
            ~ ( (a < 0) # (b < 0)
                /\ (MaxI32 \div Abs31(b)) + 1 = Abs31(a)
                /\ (MaxI32 % Abs31(b)) + 1 = Abs31(b) )
    ELSE FALSE

\* `x as usize` for an i32 x on a 64-bit target: sign extension.  The value
\* is v when ext is FALSE and 2^64 + v (v < 0) when ext is TRUE.
AsUsize(x) == [ext |-> x < 0, v |-> x]

\* usize > n for a length n
UsizeExceeds(u, n) == u.ext \/ u.v > n

\* `x as u8` for an i32 x: truncation to the low 8 bits
AsU8(x) == x % U8Range

(***************************************************************************)
(* Results.                                                                *)
(***************************************************************************)
Ok(v, r)  == [tag |-> "Ok", val |-> v, err |-> "", rest |-> r]
Err(e, r) == [tag |-> "Err", val |-> "none", err |-> e, rest |-> r]
Panic(m)  == [tag |-> "Panic", val |-> "none", err |-> m, rest |-> <<>>]

\* &input[n..] for n <= input.len()
Drop(s, n) == SubSeq(s, n + 1, Len(s))

IsSuffix(r, s) == Len(r) <= Len(s) /\ r = Drop(s, Len(s) - Len(r))

IsPrefix(p, s) == Len(p) <= Len(s) /\ p = SubSeq(s, 1, Len(p))

(***************************************************************************)
(* bstr: UTF-8 decoding, whitespace, fields.                               *)
(***************************************************************************)
IsCont(s, i) == i <= Len(s) /\ s[i] >= 128 /\ s[i] <= 191

InRange(s, i, lo, hi) == i <= Len(s) /\ s[i] >= lo /\ s[i] <= hi

\* length of the well-formed UTF-8 sequence starting at s[i], 0 when none
Utf8Len(s, i) ==
    LET b == s[i] IN
    IF b < 128 THEN 1
    ELSE IF b >= 194 /\ b <= 223 THEN (IF IsCont(s, i + 1) THEN 2 ELSE 0)
    ELSE IF b = 224 THEN
        (IF InRange(s, i + 1, 160, 191) /\ IsCont(s, i + 2) THEN 3 ELSE 0)
    ELSE IF b = 237 THEN
        (IF InRange(s, i + 1, 128, 159) /\ IsCont(s, i + 2) THEN 3 ELSE 0)
    ELSE IF b >= 225 /\ b <= 239 THEN
        (IF IsCont(s, i + 1) /\ IsCont(s, i + 2) THEN 3 ELSE 0)
    ELSE IF b = 240 THEN
        (IF InRange(s, i + 1, 144, 191) /\ IsCont(s, i + 2) /\ IsCont(s, i + 3)
         THEN 4 ELSE 0)
    ELSE IF b >= 241 /\ b <= 243 THEN
        (IF IsCont(s, i + 1) /\ IsCont(s, i + 2) /\ IsCont(s, i + 3)
         THEN 4 ELSE 0)
    ELSE IF b = 244 THEN
        (IF InRange(s, i + 1, 128, 143) /\ IsCont(s, i + 2) /\ IsCont(s, i + 3)
         THEN 4 ELSE 0)
    ELSE 0

\* char::is_whitespace on a code point (Unicode White_Space)
IsWhitespace(cp) ==
    \/ cp >= 9 /\ cp <= 13
    \/ cp \in {32, 133, 160, 5760, 8232, 8233, 8239, 8287, 12288}
    \/ cp >= 8192 /\ cp <= 8202

\* the char decoded at s[i]: its byte length and whether it is whitespace.
\* Bytes that start no well-formed sequence decode to U+FFFD, one byte at a
\* time (the continuation bytes of an ill-formed prefix are ill-formed on
\* their own, so field boundaries are those of bstr's maximal-prefix rule).
CharAt(s, i) ==
    LET n == Utf8Len(s, i) IN
    IF n = 0 THEN [len |-> 1, ws |-> FALSE]
    ELSE IF n = 1 THEN [len |-> 1, ws |-> IsWhitespace(s[i])]
    ELSE IF n = 2 THEN
        [len |-> 2, ws |-> IsWhitespace((s[i] - 192) * 64 + (s[i + 1] - 128))]
    ELSE IF n = 3 THEN
        [len |-> 3,
         ws |-> IsWhitespace((s[i] - 224) * 4096 + (s[i + 1] - 128) * 64
                             + (s[i + 2] - 128))]
    ELSE [len |-> 4, ws |-> FALSE]

RECURSIVE FieldStart(_, _)
\* index (1-based) of the first non-whitespace char at or after i, 0 if none
FieldStart(s, i) ==
    IF i > Len(s) THEN 0
    ELSE LET c == CharAt(s, i) IN
         IF c.ws THEN FieldStart(s, i + c.len) ELSE i

RECURSIVE FieldEnd(_, _)
\* index (1-based) just past the run of non-whitespace chars that holds s[i]
FieldEnd(s, i) ==
    IF i > Len(s) THEN i
    ELSE LET c == CharAt(s, i) IN
         IF c.ws THEN i ELSE FieldEnd(s, i + c.len)

\* input.fields().next(): the first maximal run of non-whitespace chars
FirstField(s) ==
    LET st == FieldStart(s, 1) IN
    IF st = 0 THEN [some |-> FALSE, start |-> 0, field |-> <<>>]
    ELSE [some |-> TRUE, start |-> st - 1,
          field |-> SubSeq(s, st, FieldEnd(s, st) - 1)]

RECURSIVE Utf8ValidFrom(_, _)
Utf8ValidFrom(s, i) ==
    IF i > Len(s) THEN TRUE
    ELSE LET n == Utf8Len(s, i) IN n > 0 /\ Utf8ValidFrom(s, i + n)

\* raw_num_str.to_str() succeeds
ToStrOk(s) == Utf8ValidFrom(s, 1)

(***************************************************************************)
(* str::parse::<i32>.                                                      *)
(***************************************************************************)
IsDigit(b) == b >= 48 /\ b <= 57

RECURSIVE ParseDigits(_, _, _, _)
\* accumulate the digits s[i..] onto acc, towards +inf or -inf as the sign
\* says; [ok |-> FALSE] on a non-digit or when the value leaves the i32 range
ParseDigits(s, i, acc, positive) ==
    IF i > Len(s) THEN [ok |-> TRUE, v |-> acc]
    ELSE IF ~IsDigit(s[i]) THEN [ok |-> FALSE, v |-> 0]
    ELSE LET d == s[i] - 48 IN
         IF positive
         THEN IF acc > (MaxI32 - d) \div 10 THEN [ok |-> FALSE, v |-> 0]
              ELSE ParseDigits(s, i + 1, acc * 10 + d, positive)
         ELSE IF acc < (MinI32 + d + 9) \div 10 THEN [ok |-> FALSE, v |-> 0]
              ELSE ParseDigits(s, i + 1, acc * 10 - d, positive)

\* s.parse::<i32>(): an optional sign, then one or more decimal digits
ParseI32(s) ==
    IF Len(s) = 0 THEN [ok |-> FALSE, v |-> 0]
    ELSE IF s[1] = 45 THEN
        (IF Len(s) = 1 THEN [ok |-> FALSE, v |-> 0]
         ELSE ParseDigits(s, 2, 0, FALSE))
    ELSE IF s[1] = 43 THEN
        (IF Len(s) = 1 THEN [ok |-> FALSE, v |-> 0]
         ELSE ParseDigits(s, 2, 0, TRUE))
    ELSE ParseDigits(s, 1, 0, TRUE)

(***************************************************************************)
(* Primitive parsers.                                                      *)
(***************************************************************************)
VERSION_STR == <<80, 53>>

\* fn match_header_version
match_header_version(input) ==
    IF IsPrefix(VERSION_STR, input)
    THEN LET read_until == Len(VERSION_STR) + 1 IN
         IF read_until > Len(input) THEN Panic("slice index out of range")
         ELSE Ok("unit", Drop(input, read_until))
    ELSE Err("NoHeaderMatch", input)

\* get_num returning only the field, not the input, with its errors
get_num_err_field(input) ==
    LET f == FirstField(input) IN
    IF ~f.some THEN Err("NoValidFieldLeft", input)
    ELSE IF ~ToStrOk(f.field) THEN Err("Utf8Error", f.field)
    ELSE LET num == ParseI32(f.field) IN
         IF ~num.ok THEN Err("InvalidNum", f.field)
         ELSE Ok(num.v, Drop(input, IF Len(f.field) = Len(input)
                                    THEN Len(f.field) ELSE Len(f.field) + 1))

\* get_num that never skips the delimiter after the field
get_num_no_delimiter_skip(input) ==
    LET f == FirstField(input) IN
    IF ~f.some THEN Err("NoValidFieldLeft", input)
    ELSE IF ~ToStrOk(f.field) THEN Err("Utf8Error", input)
    ELSE LET num == ParseI32(f.field) IN
         IF ~num.ok THEN Err("InvalidNum", input)
         ELSE Ok(num.v, Drop(input, Len(f.field)))

\* get_num that parses the number from the lossily decoded text, so that an
\* ill-formed field is reported as an invalid number
get_num_lossy_text(input) ==
    LET f == FirstField(input) IN
    IF ~f.some THEN Err("NoValidFieldLeft", input)
    ELSE LET num == ParseI32(f.field) IN
         IF ~num.ok THEN Err("InvalidNum", input)
         ELSE Ok(num.v, Drop(input, IF Len(f.field) = Len(input)
                                    THEN Len(f.field) ELSE Len(f.field) + 1))

\* fn get_num
get_num(input) ==
    LET f == FirstField(input) IN
    IF ~f.some THEN Err("NoValidFieldLeft", input)
    ELSE LET raw_num_str == f.field IN
         IF ~ToStrOk(raw_num_str) THEN Err("Utf8Error", input)
         ELSE LET num == ParseI32(raw_num_str) IN
              IF ~num.ok THEN Err("InvalidNum", input)
              ELSE LET len == Len(raw_num_str)
                       parsed_len ==
                           IF len = Len(input) THEN len ELSE len + 1
                   IN  IF len > Len(input)
                       THEN Panic("Paradoxically parsed beyond string end")
                       ELSE Ok(num.v, Drop(input, parsed_len))

\* fn get_bytes; amount is a usize.  Read::bytes on a slice yields Ok(byte)
\* for every byte and then ends, so take(amount) collects
\* min(amount, input.len()) bytes and the fold never meets an Err.
get_bytes(input, amount) ==
    LET taken == IF amount.ext THEN Len(input) ELSE Min(amount.v, Len(input))
        parsed == SubSeq(input, 1, taken)
    IN  IF UsizeExceeds(amount, Len(input))
        THEN Panic("slice index out of range")
        ELSE Ok(parsed, Drop(input, amount.v))


(***************************************************************************)
(* Parsers and closures as data.                                           *)
(*                                                                         *)
(* A parser is a record with a field t:                                    *)
(*   "match_header_version", "get_num"   the primitive functions           *)
(*   "get_bytes_wh"   move |i| get_bytes(i, (width * height) as usize),    *)
(*                    with env = <<width, height, ...>> captured and oc    *)
(*                    telling whether the build checks overflow            *)
(*   "map", "and_then"   the closure map / and_then return (p, fun)        *)
(*   "ret"            move |input| Ok(($val, input)) of parse_do!          *)
(* A closure passed as `fun` is a record with a field k and its captured   *)
(* values env.                                                             *)
(***************************************************************************)
PMatchHeaderVersion == [t |-> "match_header_version"]
PGetNum == [t |-> "get_num"]
PGetBytesWH(oc) == [t |-> "get_bytes_wh", oc |-> oc, env |-> <<>>]
PMap(parser, fun) == [t |-> "map", p |-> parser, fun |-> fun]
PAndThen(parser, fun) == [t |-> "and_then", p |-> parser, fun |-> fun]

\* PGM with the width and height fields exchanged
PGM_swapped(width, height, max_grey_val, contents) ==
    [width |-> AsUsize(height), height |-> AsUsize(width),
     max_grey_val |-> AsU8(max_grey_val), contents |-> contents]

\* struct PGM, as built by the return clause of parse_pgm
PGM(width, height, max_grey_val, contents) ==
    [width |-> AsUsize(width), height |-> AsUsize(height),
     max_grey_val |-> AsU8(max_grey_val), contents |-> contents]

\* the expression of a `return $val,` clause, over the variables bound so far
EvalRet(ret, env) ==
    IF ret = "PGM" THEN PGM(env[1], env[2], env[3], env[4])
    ELSE <<env[1], env[2]>>

\* a step parser expression, evaluated where the bound variables are in scope
BindEnv(parser, env) ==
    IF parser.t = "get_bytes_wh" THEN [parser EXCEPT !.env = env] ELSE parser

\* macro_rules! parse_do: steps is the chain of `$out <- $parser,` (bind) and
\* `$parser,` steps before the `return` clause
parse_do(steps, ret, env) ==
    IF steps = <<>> THEN [t |-> "ret", ret |-> ret, env |-> env]
    ELSE PAndThen(BindEnv(Head(steps).p, env),
                  [k |-> "do", bind |-> Head(steps).bind,
                   steps |-> Tail(steps), ret |-> ret, env |-> env])

\* fun(out) for a closure that returns a parser (the fun of and_then): the
\* continuations of parse_do!, the closure of tests::and_then_map_2_nums, and
\* ("nested_...") the closures of parse_pgm written out with and_then and map
ApplyParserFn(fun, out) ==
    IF fun.k = "do"
    THEN parse_do(fun.steps, fun.ret,
                  IF fun.bind THEN Append(fun.env, out) ELSE fun.env)
    ELSE IF fun.k = "n1_map_get_num"
    THEN \* move |n1| map(get_num, move |n2| (n1, n2))
         PMap(PGetNum, [k |-> "n2_pair", env |-> <<out>>])
    ELSE IF fun.k = "nested_width"
    THEN PAndThen(PGetNum, [k |-> "nested_height", oc |-> fun.oc,
                            env |-> fun.env])
    ELSE IF fun.k = "nested_height"
    THEN PAndThen(PGetNum, [k |-> "nested_max_grey", oc |-> fun.oc,
                            env |-> Append(fun.env, out)])
    ELSE IF fun.k = "nested_max_grey"
    THEN PAndThen(PGetNum, [k |-> "nested_contents", oc |-> fun.oc,
                            env |-> Append(fun.env, out)])
    ELSE \* "nested_contents"
         PMap(BindEnv(PGetBytesWH(fun.oc), Append(fun.env, out)),
              [k |-> "make_pgm", env |-> Append(fun.env, out)])

\* fun(out) for a closure that returns a value (the fun of map)
ApplyValueFn(fun, out) ==
    IF fun.k = "n2_pair" THEN <<fun.env[1], out>>
    ELSE \* "make_pgm"
         PGM(fun.env[1], fun.env[2], fun.env[3], out)

\* move |i| get_bytes(i, (width * height) as usize): the i32 product panics
\* on overflow when the build checks overflow and wraps when it does not
get_bytes_wh(input, width, height, oc) ==
    IF oc /\ MulOverflows(width, height)
    THEN Panic("attempt to multiply with overflow")
    ELSE get_bytes(input, AsUsize(WrapMul(width, height)))

(***************************************************************************)
(* Combinators.                                                            *)
(***************************************************************************)
RECURSIVE Parse(_, _), map(_, _, _), and_then(_, _, _)

\* map that hands back the input instead of the remainder
map_keeps_input(parser, fun, input) ==
    LET r == Parse(parser, input) IN
    IF r.tag = "Ok" THEN Ok(ApplyValueFn(fun, r.val), input) ELSE r

\* and_then that runs the second parser on the input instead of the remainder
and_then_from_start(parser, fun, input) ==
    LET r == Parse(parser, input) IN
    IF r.tag = "Ok" THEN Parse(ApplyParserFn(fun, r.val), input) ELSE r

\* fn map: parser.parse(input).map(|(out, rest)| (fun(out), rest))
map(parser, fun, input) ==
    LET r == Parse(parser, input) IN
    IF r.tag = "Ok" THEN Ok(ApplyValueFn(fun, r.val), r.rest) ELSE r

\* fn and_then: parser.parse(input).and_then(|(out, rest)| fun(out).parse(rest))
and_then(parser, fun, input) ==
    LET r == Parse(parser, input) IN
    IF r.tag = "Ok" THEN Parse(ApplyParserFn(fun, r.val), r.rest) ELSE r

\* Parser::parse: call the parser on the input
Parse(parser, input) ==
    CASE parser.t = "match_header_version" -> match_header_version(input)
      [] parser.t = "get_num" -> get_num(input)
      [] parser.t = "get_bytes_wh" ->
            get_bytes_wh(input, parser.env[1], parser.env[2], parser.oc)
      [] parser.t = "map" -> map(parser.p, parser.fun, input)
      [] parser.t = "and_then" -> and_then(parser.p, parser.fun, input)
      [] parser.t = "ret" -> Ok(EvalRet(parser.ret, parser.env), input)

(***************************************************************************)
(* Parser builders.                                                        *)
(***************************************************************************)
\* the parse_do! chain of parse_pgm
PgmSteps(oc) ==
    << [bind |-> FALSE, p |-> PMatchHeaderVersion],
       [bind |-> TRUE, p |-> PGetNum],
       [bind |-> TRUE, p |-> PGetNum],
       [bind |-> TRUE, p |-> PGetNum],
       [bind |-> TRUE, p |-> PGetBytesWH(oc)] >>

\* fn parse_pgm, under a build that checks overflow (oc) or not
parse_pgm(input, oc) == Parse(parse_do(PgmSteps(oc), "PGM", <<>>), input)

\* tests::and_then_map_2_nums:
\* and_then(get_num, move |n1| map(get_num, move |n2| (n1, n2))).parse(input)
and_then_map_2_nums(input) ==
    Parse(PAndThen(PGetNum, [k |-> "n1_map_get_num", env |-> <<>>]), input)

(***************************************************************************)
(* Input buffers.                                                          *)
(***************************************************************************)
RECURSIVE ToDecimal(_)
\* the decimal text of an integer above i32::MIN, as bytes
ToDecimal(n) ==
    IF n < 0 THEN <<45>> \o ToDecimal(-n)
    ELSE IF n < 10 THEN <<48 + n>>
    ELSE ToDecimal(n \div 10) \o <<48 + (n % 10)>>

\* bytes of the free-form buffers: ' ', '-', '1', '5', 'P', and the two bytes
\* of U+00A0 (whitespace; each byte alone is ill-formed UTF-8)
ArbBytes == {32, 45, 49, 53, 80, 160, 194}

ArbInputs == UNION {[1..n -> ArbBytes] : n \in 0..MaxLen}

\* the buffers of the unit tests: "12", "12 24", "12 14 16", "P5\n120 32",
\* and "12x", "   "
TestInputs ==
    { <<49, 50>>, <<49, 50, 32, 50, 52>>,
      <<49, 50, 32, 49, 52, 32, 49, 54>>,
      <<80, 53, 10, 49, 50, 48, 32, 51, 50>>,
      <<49, 50, 120>>, <<32, 32, 32>> }

\* widths and heights written in generated headers: small ones, a negative
\* one, and one whose square leaves the i32 range
DimVals == (0..MaxDim) \cup {-1, 65536}

\* declared maximum grey values written in generated headers
GreyVals == {0, 255, 256}

HeaderTags == {<<80, 53, 10>>, <<80, 54, 10>>}

\* "2147483648" (i32::MAX + 1) next to the well-formed widths
WidthFields ==
    {ToDecimal(n) : n \in DimVals} \cup {<<50, 49, 52, 55, 52, 56, 51, 54, 52, 56>>}

\* "x" next to the well-formed heights and maximum grey values
HeightFields == {ToDecimal(n) : n \in DimVals} \cup {<<120>>}

GreyFields == {ToDecimal(n) : n \in GreyVals} \cup {<<120>>}

PixelBytes == {32, 255}

PixelBlocks == UNION {[1..n -> PixelBytes] : n \in 0..MaxPixels}

\* "<tag>\n<width> <height> <max grey>\n<pixels>"
PgmInputs ==
    { t \o w \o <<32>> \o h \o <<32>> \o m \o <<10>> \o px :
        t \in HeaderTags, w \in WidthFields, h \in HeightFields,
        m \in GreyFields, px \in PixelBlocks }

Inputs == ArbInputs \cup TestInputs \cup PgmInputs

\* counts passed to get_bytes when it is called on its own
Amounts == {AsUsize(n) : n \in (-1)..(MaxPixels + 1)}

(***************************************************************************)
(* State: one call of one of the parsers on one buffer.                    *)
(***************************************************************************)
VARIABLES
    input,            \* the buffer the caller holds
    op,               \* the function called on it, "none" before the call
    amount,           \* the count given to get_bytes
    overflow_checks,  \* whether the build checks arithmetic overflow
    result            \* the ParseResult returned, or the abort

vars == <<input, op, amount, overflow_checks, result>>

NoResult == [tag |-> "None", val |-> "none", err |-> "", rest |-> <<>>]

Init ==
    /\ input \in Inputs
    /\ op = "none"
    /\ amount = AsUsize(0)
    /\ overflow_checks = FALSE
    /\ result = NoResult

MatchHeaderVersion ==
    /\ op = "none"
    /\ op' = "match_header_version"
    /\ result' = match_header_version(input)
    /\ UNCHANGED <<input, amount, overflow_checks>>

GetNum ==
    /\ op = "none"
    /\ op' = "get_num"
    /\ result' = get_num(input)
    /\ UNCHANGED <<input, amount, overflow_checks>>

GetBytes ==
    /\ op = "none"
    /\ \E n \in Amounts :
        /\ amount' = n
        /\ result' = get_bytes(input, n)
    /\ op' = "get_bytes"
    /\ UNCHANGED <<input, overflow_checks>>

ParsePgm ==
    /\ op = "none"
    /\ \E oc \in BOOLEAN :
        /\ overflow_checks' = oc
        /\ result' = parse_pgm(input, oc)
    /\ op' = "parse_pgm"
    /\ UNCHANGED <<input, amount>>

AndThenMap2Nums ==
    /\ op = "none"
    /\ op' = "and_then_map_2_nums"
    /\ result' = and_then_map_2_nums(input)
    /\ UNCHANGED <<input, amount, overflow_checks>>

Next ==
    \/ MatchHeaderVersion
    \/ GetNum
    \/ GetBytes
    \/ ParsePgm
    \/ AndThenMap2Nums

Spec == Init /\ [][Next]_vars

(***************************************************************************)
(* Properties.                                                             *)
(***************************************************************************)
SameResult(a, b) ==
    /\ a.tag = b.tag
    /\ a.err = b.err
    /\ a.rest = b.rest
    /\ (a.tag = "Ok" => a.val = b.val)

\* "P5\n{W} {H} {M}\n"
HeaderText(W, H, M) ==
    <<80, 53, 10>> \o ToDecimal(W) \o <<32>> \o ToDecimal(H) \o <<32>>
        \o ToDecimal(M) \o <<10>>

\* the non-negative widths and heights of the generated headers
NatDims == {n \in DimVals : n >= 0}

\* the input is "P5\n{W} {H} {M}\n" followed by exactly W*H bytes
IsImageOf(W, H, M) ==
    /\ ~MulOverflows(W, H)
    /\ IsPrefix(HeaderText(W, H, M), input)
    /\ Len(input) = Len(HeaderText(W, H, M)) + W * H

\* parse_pgm returned the record (W, H, M, the bytes after the header) and an
\* empty remainder
RoundTrips(W, H, M) ==
    /\ result.tag = "Ok"
    /\ result.rest = <<>>
    /\ result.val.width = [ext |-> FALSE, v |-> W]
    /\ result.val.height = [ext |-> FALSE, v |-> H]
    /\ result.val.max_grey_val = M
    /\ result.val.contents = Drop(input, Len(HeaderText(W, H, M)))

\* C1 as stated: for every W >= 0, H >= 0, every declared maximum M and every
\* W*H bytes, parse_pgm on "P5\n{W} {H} {M}\n" + bytes succeeds with the
\* record (W, H, M, bytes) and an empty remainder.
C1_RoundTripAnyMax ==
    op = "parse_pgm" =>
        \A W \in NatDims, H \in NatDims, M \in GreyVals :
            IsImageOf(W, H, M) => RoundTrips(W, H, M)

\* C1 amended: the same round trip for every declared maximum M in 0..255
\* (and W, H, W*H within the i32 range).
C1_RoundTrip ==
    op = "parse_pgm" =>
        \A W \in NatDims, H \in NatDims, M \in {m \in GreyVals : m <= 255} :
            IsImageOf(W, H, M) => RoundTrips(W, H, M)

C1_Witness ==
    /\ op = "parse_pgm"
    /\ IsImageOf(2, 1, 255)
    /\ result.tag = "Ok"
    /\ Len(result.val.contents) = 2

\* the input is a well-formed header whose pixel section is shorter than W*H
IsShortImageOf(W, H, M) ==
    /\ ~MulOverflows(W, H)
    /\ IsPrefix(HeaderText(W, H, M), input)
    /\ Len(input) < Len(HeaderText(W, H, M)) + W * H

\* C2: whenever fewer bytes remain than the requested count, the byte-block
\* read fails with InvByte and the slice it was given: get_bytes(input, n)
\* with n > len(input), and parse_pgm on an input whose pixel section is
\* shorter than width*height.
C2_ShortReadFailsWithInvByte ==
    /\ (op = "get_bytes" /\ UsizeExceeds(amount, Len(input)))
            => result = Err("InvByte", input)
    /\ op = "parse_pgm" =>
        \A W \in NatDims, H \in NatDims, M \in GreyVals :
            IsShortImageOf(W, H, M) =>
                result = Err("InvByte", Drop(input, Len(HeaderText(W, H, M))))

\* the exact product of two usize values equals the length n
UsizeProductIs(w, h, n) ==
    IF (~w.ext /\ w.v = 0) \/ (~h.ext /\ h.v = 0) THEN n = 0
    ELSE IF w.ext \/ h.ext THEN FALSE
    ELSE n % w.v = 0 /\ n \div w.v = h.v

\* C3: every record parse_pgm returns has len(contents) = width * height for
\* its stored width and height, and max_grey_val in 0..255.
C3_RecordInvariant ==
    (op = "parse_pgm" /\ result.tag = "Ok") =>
        /\ UsizeProductIs(result.val.width, result.val.height,
                          Len(result.val.contents))
        /\ result.val.max_grey_val \in 0..255

Primitives == {"match_header_version", "get_num", "get_bytes"}

\* C4 as stated: for every parser, primitive or built with the combinators,
\* a success returns a suffix of the parser's input and a failure returns
\* the parser's input.
C4_FailureReturnsOwnInput ==
    op # "none" =>
        /\ result.tag = "Ok" => IsSuffix(result.rest, input)
        /\ result.tag = "Err" => result.rest = input

\* C4 amended: a success returns a suffix of the parser's input; a failure of
\* a primitive returns the primitive's input; a failure of a parser built
\* with the combinators returns the slice given to the sub-parser that
\* failed, which is a suffix of the input.
C4_TwoResultContract ==
    op # "none" =>
        /\ result.tag = "Ok" => IsSuffix(result.rest, input)
        /\ (result.tag = "Err" /\ op \in Primitives) => result.rest = input
        /\ (result.tag = "Err" /\ op \notin Primitives) =>
            /\ IsSuffix(result.rest, input)
            /\ \/ SameResult(match_header_version(result.rest), result)
               \/ SameResult(get_num(result.rest), result)

C4_Witness ==
    /\ op = "parse_pgm"
    /\ result.tag = "Err"
    /\ result.rest # input

\* C5: match_header_version succeeds with unit and the input less its first
\* 3 bytes on every input that begins with "P5", and fails with NoHeaderMatch
\* and the input unchanged on every other input.
C5_HeaderMatcher ==
    op = "match_header_version" =>
        IF IsPrefix(<<80, 53>>, input)
        THEN result = Ok("unit", Drop(input, 3))
        ELSE result = Err("NoHeaderMatch", input)

\* C6: when the first field of the input is valid text that parses as an i32
\* v, get_num returns v and the input less len(field) bytes if the field is
\* the whole input, less len(field) + 1 bytes otherwise; "12" gives
\* (12, "") and "12 24" gives (12, "24").
C6_GetNumSuccess ==
    op = "get_num" =>
        /\ LET f == FirstField(input) IN
           (f.some /\ ToStrOk(f.field) /\ ParseI32(f.field).ok) =>
              /\ result.tag = "Ok"
              /\ result.val = ParseI32(f.field).v
              /\ result.rest =
                    IF Len(f.field) = Len(input)
                    THEN Drop(input, Len(f.field))
                    ELSE Drop(input, Len(f.field) + 1)
        /\ input = <<49, 50>> => SameResult(result, Ok(12, <<>>))
        /\ input = <<49, 50, 32, 50, 52>>
              => SameResult(result, Ok(12, <<50, 52>>))

C6_Witness ==
    /\ op = "get_num"
    /\ input = <<49, 50, 32, 50, 52>>
    /\ result.tag = "Ok"

\* C7: get_num fails with NoValidFieldLeft when the input holds no field,
\* else with Utf8Error when the first field is not valid UTF-8, else with
\* InvalidNum when the field is no i32 decimal; the slice returned is the
\* whole input each time.
C7_GetNumFailures ==
    op = "get_num" =>
        /\ LET f == FirstField(input) IN
           /\ ~f.some => result = Err("NoValidFieldLeft", input)
           /\ (f.some /\ ~ToStrOk(f.field)) => result = Err("Utf8Error", input)
           /\ (f.some /\ ToStrOk(f.field) /\ ~ParseI32(f.field).ok)
                 => result = Err("InvalidNum", input)
        /\ input \in {<<>>, <<32, 32, 32>>}
              => result = Err("NoValidFieldLeft", input)
        /\ input = <<49, 50, 120>> => result = Err("InvalidNum", input)
        /\ input = <<32, 194, 49>> => result = Err("Utf8Error", input)

C7_Witness ==
    /\ op = "get_num"
    /\ result.err = "Utf8Error"
    /\ Len(FirstField(input).field) < Len(input)

\* the sub-parsers of parse_pgm run one after the other, each on the
\* remainder of the one before
StepHeader == match_header_version(input)
StepWidth == get_num(StepHeader.rest)
StepHeight == get_num(StepWidth.rest)
StepMaxGrey == get_num(StepHeight.rest)

\* C8: parse_pgm runs header, width, height, max grey value and pixel block
\* in this order, each on the remainder of the one before, and returns the
\* error and slice of the first one that fails; a record is returned only
\* when none failed.
C8_FirstFailurePropagates ==
    op = "parse_pgm" =>
        IF StepHeader.tag # "Ok" THEN result = StepHeader
        ELSE IF StepWidth.tag # "Ok" THEN result = StepWidth
        ELSE IF StepHeight.tag # "Ok" THEN result = StepHeight
        ELSE IF StepMaxGrey.tag # "Ok" THEN result = StepMaxGrey
        ELSE /\ result.tag # "Err"
             /\ result.tag = "Ok" =>
                   /\ result.val.width = AsUsize(StepWidth.val)
                   /\ result.val.height = AsUsize(StepHeight.val)
                   /\ IsSuffix(result.rest, StepMaxGrey.rest)
                   /\ IsPrefix(result.val.contents, StepMaxGrey.rest)

C8_Witness ==
    /\ op = "parse_pgm"
    /\ StepHeader.tag = "Ok"
    /\ StepWidth.tag = "Ok"
    /\ StepHeight.tag = "Ok"
    /\ StepMaxGrey.tag = "Err"
    /\ result.tag = "Err"

\* two get_num steps threaded by hand: the second runs on the remainder of
\* the first
TwoNumsByHand ==
    LET r1 == get_num(input) IN
    IF r1.tag # "Ok" THEN r1
    ELSE LET r2 == get_num(r1.rest) IN
         IF r2.tag # "Ok" THEN r2 ELSE Ok(<<r1.val, r2.val>>, r2.rest)

\* parse_do! { n1 <- get_num, n2 <- get_num, return (n1, n2), }
TwoNumsDo ==
    parse_do(<< [bind |-> TRUE, p |-> PGetNum], [bind |-> TRUE, p |-> PGetNum] >>,
             "pair", <<>>)

\* parse_pgm written with and_then and map alone
NestedPgm(oc) ==
    PAndThen(PMatchHeaderVersion,
             [k |-> "nested_width", oc |-> oc, env |-> <<>>])

\* C9: and_then runs the second parser on the remainder of the first, map
\* keeps the remainder and passes failures through, and a parse_do! chain
\* returns what the nested and_then/map expression returns; two get_num
\* steps on "12 14 16" give (12, 14) and "16".
C9_CompositionThreadsRemainder ==
    /\ op = "and_then_map_2_nums" =>
        /\ SameResult(result, TwoNumsByHand)
        /\ SameResult(Parse(TwoNumsDo, input), result)
        /\ input = <<49, 50, 32, 49, 52, 32, 49, 54>>
              => SameResult(result, Ok(<<12, 14>>, <<49, 54>>))
    /\ op = "parse_pgm" =>
        SameResult(Parse(NestedPgm(overflow_checks), input), result)

C9_Witness ==
    /\ op = "and_then_map_2_nums"
    /\ input = <<49, 50, 32, 49, 52, 32, 49, 54>>
    /\ result.tag = "Ok"

\* C10: when get_num succeeds, the remainder starts after the last byte of
\* the field whose value was returned and at most one byte past it, also on
\* inputs that begin with whitespace.
C10_ConsumptionAligned ==
    (op = "get_num" /\ result.tag = "Ok") =>
        LET f == FirstField(input)
            fieldEnd == f.start + Len(f.field)
            consumed == Len(input) - Len(result.rest)
        IN  consumed >= fieldEnd /\ consumed <= fieldEnd + 1

=============================================================================
